---------------------------- MODULE Spec2Model ----------------------------
(***************************************************************************)
(* A model of src/Layers.py: LayerNorm, SublayerConnection, EncoderLayer,   *)
(* scaled dot-product attention, MultiHeadedAttention and the relative     *)
(* position variant MultiHeadedAttention_RPR.                              *)
(*                                                                         *)
(* Tensors are records [shape, data, error]: shape is the sequence of     *)
(* dimension sizes, data the elements in row-major (contiguous) order and  *)
(* error the name of the tensor operation that raised, "" when none did.   *)
(* Elements are exact rationals <<n, d>>; a value the exact arithmetic     *)
(* cannot hold (an irrational square root, a NaN, a number beyond the      *)
(* integer range) is the one element Inexact.                              *)
(***************************************************************************)
EXTENDS Integers, Sequences, FiniteSets, TLC

(***************************************************************************)
(* Exact rational arithmetic for tensor elements.                          *)
(***************************************************************************)
\* The range numerators and denominators stay within; a value beyond it is
\* Inexact.
HalfMax == 2^30 - 1
IntMax == 2 * HalfMax + 1

Abs(x) == IF x < 0 THEN -x ELSE x

RECURSIVE GCD(_, _)
GCD(a, b) == IF b = 0 THEN a ELSE GCD(b, a % b)

Inexact == <<0, 0>>

IsExact(r) == r[2] # 0

\* n/d in lowest terms with a positive denominator.
Q(n, d) ==
    IF d = 0 THEN Inexact
    ELSE LET g == GCD(Abs(n), Abs(d))
             s == IF d < 0 THEN -1 ELSE 1
         IN  <<(s * n) \div g, (s * d) \div g>>

R(n) == <<n, 1>>

\* The product x*y fits below `lim`.
FitsMul(x, y, lim) == x = 0 \/ y = 0 \/ Abs(y) <= lim \div Abs(x)

RAdd(a, b) ==
    IF a[2] = 1 /\ b[2] = 1 /\ Abs(a[1]) <= HalfMax /\ Abs(b[1]) <= HalfMax
    THEN <<a[1] + b[1], 1>>
    ELSE IF ~IsExact(a) \/ ~IsExact(b) THEN Inexact
    ELSE IF a[2] = b[2]
         THEN (IF Abs(a[1]) <= HalfMax /\ Abs(b[1]) <= HalfMax
               THEN Q(a[1] + b[1], a[2]) ELSE Inexact)
    ELSE IF FitsMul(a[1], b[2], HalfMax) /\ FitsMul(b[1], a[2], HalfMax)
            /\ FitsMul(a[2], b[2], HalfMax)
         THEN Q(a[1] * b[2] + b[1] * a[2], a[2] * b[2])
         ELSE Inexact

RNeg(a) == IF IsExact(a) THEN <<-a[1], a[2]>> ELSE Inexact

RSub(a, b) == RAdd(a, RNeg(b))

RMul(a, b) ==
    IF a[2] = 1 /\ b[2] = 1 /\ FitsMul(a[1], b[1], HalfMax) THEN <<a[1] * b[1], 1>>
    ELSE IF ~IsExact(a) \/ ~IsExact(b) THEN Inexact
    ELSE LET g1 == GCD(Abs(a[1]), b[2])
             g2 == GCD(Abs(b[1]), a[2])
             n1 == a[1] \div g1
             d2 == b[2] \div g1
             n2 == b[1] \div g2
             d1 == a[2] \div g2
         IN  IF FitsMul(n1, n2, HalfMax) /\ FitsMul(d1, d2, HalfMax)
             THEN Q(n1 * n2, d1 * d2) ELSE Inexact

\* Division by zero gives inf or nan in floating point: Inexact here.
RDiv(a, b) ==
    IF ~IsExact(a) \/ ~IsExact(b) \/ b[1] = 0 THEN Inexact
    ELSE RMul(a, Q(b[2], b[1]))

\* Whether a < b can be decided without leaving the integer range.
RComparable(a, b) ==
    /\ IsExact(a) /\ IsExact(b)
    /\ FitsMul(a[1], b[2], IntMax) /\ FitsMul(b[1], a[2], IntMax)

RLess(a, b) == a[1] * b[2] < b[1] * a[2]

RECURSIVE ISqrtFrom(_, _)
ISqrtFrom(n, s) == IF s * s >= n THEN s ELSE ISqrtFrom(n, s + 1)

\* math.sqrt / torch.std's square root: exact when the root is rational.
RSqrt(a) ==
    IF ~IsExact(a) \/ a[1] < 0 \/ a[1] > 4096 \/ a[2] > 4096 THEN Inexact
    ELSE LET sn == ISqrtFrom(a[1], 0)
             sd == ISqrtFrom(a[2], 0)
         IN  IF sn * sn = a[1] /\ sd * sd = a[2] THEN Q(sn, sd) ELSE Inexact


RECURSIVE RSumSeq(_)
RSumSeq(s) == IF Len(s) = 0 THEN R(0) ELSE RAdd(Head(s), RSumSeq(Tail(s)))

(***************************************************************************)
(* Shapes and row-major indexing.  Positions in a shape and in a           *)
(* multi-index are 1-based sequences; the indices themselves, like the     *)
(* flat offset, count from 0 as in the source.                             *)
(***************************************************************************)
RECURSIVE Numel(_)
Numel(shape) == IF Len(shape) = 0 THEN 1 ELSE Head(shape) * Numel(Tail(shape))

\* The row-major strides of a shape.
Strides(shape) ==
    [k \in 1..Len(shape) |-> Numel(SubSeq(shape, k + 1, Len(shape)))]

\* The multi-index of flat offset f.
Unravel(f, shape, st) == [k \in 1..Len(shape) |-> (f \div st[k]) % shape[k]]

\* The flat offset at which a tensor of shape s (strides st) is read for the
\* multi-index idx of a shape it broadcasts to: idx is aligned at the right,
\* and a dimension of size 1 is read at 0.
RECURSIVE OffsetFrom(_, _, _, _)
OffsetFrom(idx, s, st, k) ==
    IF k > Len(s) THEN 0
    ELSE (IF s[k] = 1 THEN 0 ELSE idx[k + (Len(idx) - Len(s))] * st[k])
         + OffsetFrom(idx, s, st, k + 1)

Offset(idx, s, st) == OffsetFrom(idx, s, st, 1)

\* (SubSeq makes TLC evaluate the elements once, when the tensor is built.)
T(shape, data) ==
    [shape |-> SubSeq(shape, 1, Len(shape)),
     data  |-> SubSeq(data, 1, Numel(shape)),
     error |-> ""]

\* The exception a tensor operation raises; it propagates through every
\* later operation of the call.
Raise(name) == [shape |-> <<>>, data |-> <<>>, error |-> name]

IsErr(t) == t.error # ""

At(t, idx) == t.data[Offset(idx, t.shape, Strides(t.shape)) + 1]

\* x.size(k)
Size(t, k) == t.shape[k + 1]

\* A dimension argument, negative ones counting from the end.
NormDim(d, n) == IF d < 0 THEN d + n ELSE d

(***************************************************************************)
(* Broadcasting, as the tensor library does it for x + y, masked_fill and  *)
(* the batch dimensions of matmul: shapes are aligned at the right, and    *)
(* two sizes are compatible when they are equal or one of them is 1.       *)
(***************************************************************************)
NoShape == <<-1>>

PadShape(s, n) == [k \in 1..n |-> IF k <= n - Len(s) THEN 1 ELSE s[k - (n - Len(s))]]

BroadcastShapes(s1, s2) ==
    LET n == IF Len(s1) > Len(s2) THEN Len(s1) ELSE Len(s2)
        p1 == PadShape(s1, n)
        p2 == PadShape(s2, n)
    IN  IF \A k \in 1..n : p1[k] = p2[k] \/ p1[k] = 1 \/ p2[k] = 1
        THEN [k \in 1..n |-> IF p1[k] = 1 THEN p2[k] ELSE p1[k]]
        ELSE NoShape

RBinary(op, x, y) ==
    CASE op = "add" -> RAdd(x, y)
      [] op = "sub" -> RSub(x, y)
      [] op = "mul" -> RMul(x, y)
      [] op = "div" -> RDiv(x, y)

\* a + b, a - b, a * b, a / b on tensors.
TBinary(op, a, b) ==
    IF IsErr(a) THEN a ELSE IF IsErr(b) THEN b
    ELSE LET shape == BroadcastShapes(a.shape, b.shape)
             st    == Strides(shape)
             sta   == Strides(a.shape)
             stb   == Strides(b.shape)
         IN  IF shape = NoShape THEN Raise(op)
             ELSE T(shape, [f \in 1..Numel(shape) |->
                      LET idx == Unravel(f - 1, shape, st)
                      IN  RBinary(op, a.data[Offset(idx, a.shape, sta) + 1],
                                      b.data[Offset(idx, b.shape, stb) + 1])])

\* a + c, a / c for a Python number c.
TScalar(op, a, c) ==
    IF IsErr(a) THEN a
    ELSE T(a.shape, [f \in 1..Numel(a.shape) |-> RBinary(op, a.data[f], c)])

\* torch.matmul of two tensors of two or more dimensions (the only case the
\* source uses): a batched matrix product whose batch dimensions broadcast.
\* Element (batch, i, j) is the sum over k of a[batch, i, k] * b[batch, k, j].
MatMul(a, b) ==
    IF IsErr(a) THEN a ELSE IF IsErr(b) THEN b
    ELSE LET na == Len(a.shape)
             nb == Len(b.shape)
         IN  IF na < 2 \/ nb < 2 THEN Raise("matmul")
             ELSE LET n      == a.shape[na - 1]
                      m      == a.shape[na]
                      p      == b.shape[nb]
                      batcha == SubSeq(a.shape, 1, na - 2)
                      batchb == SubSeq(b.shape, 1, nb - 2)
                      batch  == BroadcastShapes(batcha, batchb)
                      shape  == batch \o <<n, p>>
                      st     == Strides(batch)
                      sta    == Strides(batcha)
                      stb    == Strides(batchb)
                  IN  IF m # b.shape[nb - 1] \/ batch = NoShape THEN Raise("matmul")
                      ELSE T(shape, [f \in 1..Numel(shape) |->
                             LET i    == ((f - 1) \div p) % n
                                 j    == (f - 1) % p
                                 bidx == Unravel((f - 1) \div (n * p), batch, st)
                                 oa   == Offset(bidx, batcha, sta) * n * m + i * m
                                 ob   == Offset(bidx, batchb, stb) * m * p + j
                             IN  RSumSeq([k \in 1..m |->
                                     RMul(a.data[oa + k], b.data[ob + (k - 1) * p + 1])])])

\* x.permute(*perm): dimension k of the result is dimension perm[k] of x.
\* The data is kept in the row-major order of the new shape, so
\* .contiguous() is the identity.
Permute(t, perm) ==
    IF IsErr(t) THEN t
    ELSE LET n     == Len(t.shape)
             shape == [k \in 1..n |-> t.shape[perm[k] + 1]]
             st    == Strides(shape)
             stt   == Strides(t.shape)
             inv   == [j \in 1..n |-> CHOOSE k \in 1..n : perm[k] + 1 = j]
         IN  T(shape, [f \in 1..Numel(shape) |->
                 LET idx == Unravel(f - 1, shape, st)
                 IN  t.data[Offset([j \in 1..n |-> idx[inv[j]]], t.shape, stt) + 1]])

\* x.transpose(d0, d1)
Transpose(t, d0, d1) ==
    IF IsErr(t) THEN t
    ELSE LET n == Len(t.shape)
             a == NormDim(d0, n)
             b == NormDim(d1, n)
         IN  Permute(t, [k \in 1..n |-> IF k - 1 = a THEN b
                                        ELSE IF k - 1 = b THEN a ELSE k - 1])

Contiguous(t) == t

\* x.view(*spec): the same elements in the same order under a new shape; one
\* size may be -1 and is inferred from the others.
View(t, spec) ==
    IF IsErr(t) THEN t
    ELSE LET total == Numel(t.shape)
             holes == {k \in 1..Len(spec) : spec[k] = -1}
             known == Numel([k \in 1..Len(spec) |-> IF spec[k] = -1 THEN 1 ELSE spec[k]])
         IN  IF holes = {}
             THEN (IF known = total THEN T(spec, t.data) ELSE Raise("view"))
             ELSE IF Cardinality(holes) > 1 \/ known = 0 THEN Raise("view")
             ELSE IF total % known # 0 THEN Raise("view")
             ELSE T([k \in 1..Len(spec) |-> IF spec[k] = -1 THEN total \div known
                                            ELSE spec[k]], t.data)

\* x.unsqueeze(dim)
Unsqueeze(t, dim) ==
    IF IsErr(t) THEN t
    ELSE LET n == Len(t.shape)
             d == IF dim < 0 THEN dim + n + 1 ELSE dim
         IN  T([k \in 1..(n + 1) |-> IF k <= d THEN t.shape[k]
                                     ELSE IF k = d + 1 THEN 1 ELSE t.shape[k - 1]],
               t.data)

\* scores.masked_fill(mask == 0, value): the mask must broadcast to the shape
\* of scores, and the result has that shape.
MaskedFill(t, mask, value) ==
    IF IsErr(t) THEN t ELSE IF IsErr(mask) THEN mask
    ELSE IF BroadcastShapes(t.shape, mask.shape) # t.shape THEN Raise("masked_fill")
    ELSE LET st  == Strides(t.shape)
             stm == Strides(mask.shape)
         IN  T(t.shape, [f \in 1..Numel(t.shape) |->
                 IF mask.data[Offset(Unravel(f - 1, t.shape, st), mask.shape, stm) + 1] = R(0)
                 THEN value ELSE t.data[f]])

(***************************************************************************)
(* softmax.  exp is modelled by the exact function x |-> 4^x, which like   *)
(* e^x is positive, strictly increasing and turns sums into products, so   *)
(* that weights are exact rationals when the scores are multiples of 1/2.  *)
(* As the library does, the row maximum is subtracted first, and an        *)
(* exponent more than ExpUnderflow below the maximum underflows to 0 (in   *)
(* float32, exp(x) is 0 below about -104; -1e9 is far below either).       *)
(***************************************************************************)
ExpUnderflow == 6

RECURSIVE RMaxSeq(_)
RMaxSeq(s) ==
    IF Len(s) = 1 THEN s[1]
    ELSE LET m == RMaxSeq(Tail(s)) IN IF RLess(m, s[1]) THEN s[1] ELSE m

\* 4^(-diff) for 0 <= diff <= ExpUnderflow.
ExpNeg(diff) ==
    IF ~IsExact(diff) \/ (2 * diff[1]) % diff[2] # 0 THEN Inexact
    ELSE Q(1, 2 ^ ((2 * diff[1]) \div diff[2]))

SoftmaxRow(row) ==
    IF Len(row) = 0 THEN row
    ELSE IF \E i, j \in 1..Len(row) : ~RComparable(row[i], row[j])
         THEN [i \in 1..Len(row) |-> Inexact]
    ELSE LET m   == RMaxSeq(row)
             low == RSub(m, R(ExpUnderflow))
             e   == [i \in 1..Len(row) |->
                        IF ~RComparable(row[i], low) THEN Inexact
                        ELSE IF RLess(row[i], low) THEN R(0)
                        ELSE ExpNeg(RSub(m, row[i]))]
             sum == RSumSeq(e)
         IN  [i \in 1..Len(row) |-> RDiv(e[i], sum)]

\* F.softmax(x, dim=-1)
Softmax(t) ==
    IF IsErr(t) THEN t
    ELSE LET n    == t.shape[Len(t.shape)]
             rows == [r \in 1..(IF n = 0 THEN 0 ELSE Numel(t.shape) \div n) |->
                         SoftmaxRow(SubSeq(t.data, (r - 1) * n + 1, r * n))]
         IN  T(t.shape, [f \in 1..Numel(t.shape) |->
                            rows[((f - 1) \div n) + 1][((f - 1) % n) + 1]])

(***************************************************************************)
(* nn.Dropout(p): the identity in evaluation mode and when p = 0; in       *)
(* training mode each element is zeroed at random and the others are       *)
(* scaled by 1/(1-p).  The random draw is the argument `seed`: element f    *)
(* is dropped when bit (f mod 2) of seed is set, so that seed 0 keeps      *)
(* everything and seed 3 drops everything.                                 *)
(***************************************************************************)
DropBit(seed, f) == (seed \div (2 ^ (f % 2))) % 2 = 1

\* nn.Dropout.forward; self is the Dropout module, [p, training].
Dropout(self, x, seed) ==
    IF IsErr(x) \/ ~self.training \/ self.p = R(0) THEN x
    ELSE T(x.shape, [f \in 1..Numel(x.shape) |->
             IF DropBit(seed, f) THEN R(0)
             ELSE RDiv(x.data[f], RSub(R(1), self.p))])

\* nn.Linear: x @ W^T + b, W of shape (out_features, in_features).
Linear(l, x) == TBinary("add", MatMul(x, Transpose(l.weight, 0, 1)), l.bias)

\* torch.arange(n)
Arange(n) == T(<<n>>, [i \in 1..n |-> R(i - 1)])

\* torch.clamp(x, lo, hi) on an integer tensor
Clamp(t, lo, hi) ==
    IF IsErr(t) THEN t
    ELSE T(t.shape, [f \in 1..Numel(t.shape) |->
             LET v == t.data[f][1]
             IN  R(IF v < lo THEN lo ELSE IF v > hi THEN hi ELSE v)])

\* nn.Embedding.forward: row table[i] for every index i of the index tensor.
Embedding(table, index) ==
    IF IsErr(index) THEN index
    ELSE LET depth == table.shape[2]
             shape == index.shape \o <<depth>>
         IN  IF \E f \in 1..Numel(index.shape) :
                    index.data[f][1] < 0 \/ index.data[f][1] >= table.shape[1]
             THEN Raise("embedding")
             ELSE T(shape, [f \in 1..Numel(shape) |->
                     At(table, <<index.data[((f - 1) \div depth) + 1][1], (f - 1) % depth>>)])

\* F.relu
Relu(t) ==
    IF IsErr(t) THEN t
    ELSE T(t.shape, [f \in 1..Numel(t.shape) |->
             IF ~IsExact(t.data[f]) THEN Inexact
             ELSE IF t.data[f][1] < 0 THEN R(0) ELSE t.data[f]])

\* x.mean(-1, keepdim=True)
MeanLast(t) ==
    IF IsErr(t) THEN t
    ELSE LET n     == t.shape[Len(t.shape)]
             shape == [k \in 1..Len(t.shape) |-> IF k = Len(t.shape) THEN 1 ELSE t.shape[k]]
         IN  T(shape, [r \in 1..Numel(shape) |->
                 RDiv(RSumSeq(SubSeq(t.data, (r - 1) * n + 1, r * n)), R(n))])

\* x.std(-1, keepdim=True): the unbiased estimator, nan for a single element.
StdLast(t) ==
    IF IsErr(t) THEN t
    ELSE LET n     == t.shape[Len(t.shape)]
             shape == [k \in 1..Len(t.shape) |-> IF k = Len(t.shape) THEN 1 ELSE t.shape[k]]
             mean  == MeanLast(t)
         IN  T(shape, [r \in 1..Numel(shape) |->
                 LET row == SubSeq(t.data, (r - 1) * n + 1, r * n)
                     sq  == [i \in 1..n |-> LET d == RSub(row[i], mean.data[r])
                                            IN  RMul(d, d)]
                 IN  RSqrt(RDiv(RSumSeq(sq), R(n - 1)))])

(***************************************************************************)
(* The layers of src/Layers.py.  A module instance is a record of its      *)
(* fields; a forward method is an operator of the instance, the call's     *)
(* arguments and the random draws the call makes.  A local of the source   *)
(* that is read more than once is the parameter of an operator for the     *)
(* lines that follow its assignment.                                       *)
(***************************************************************************)
\* The Python value None, for an absent mask or module.
None == [shape |-> <<>>, data |-> <<>>, error |-> "None"]

\* LayerNorm.forward
LayerNorm_forward(self, x) ==
    TBinary("add",
        TBinary("div", TBinary("mul", self.weight, TBinary("sub", x, MeanLast(x))),
                       TScalar("add", StdLast(x), self.eps)),
        self.bias)

\* Line 131 of attention: the pair (output, p_attn); `scores` is the local of
\* that name as softmax read it.
attention_return(scores, p_attn, value) ==
    [x |-> MatMul(p_attn, value), p_attn |-> p_attn, scores |-> scores]

\* Lines 127-131 of attention.
attention_softmax(scores, value, dropout, seed) ==
    attention_return(scores, Dropout(dropout, Softmax(scores), seed), value)

\* Lines 125-126 of attention.
attention_mask(scores, mask) ==
    IF mask # None THEN MaskedFill(scores, mask, R(-1000000000)) ELSE scores

\* attention(query, key, value, mask, dropout)
attention(query, key, value, mask, dropout, seed) ==
    attention_softmax(
        attention_mask(
            TScalar("div", MatMul(query, Transpose(key, -2, -1)),
                    RSqrt(R(IF IsErr(query) THEN 0 ELSE query.shape[Len(query.shape)]))),
            mask),
        value, dropout, seed)

\* The projection and head split of one input, lines 172 and 263:
\* l(x).view(nbatches, -1, h, d_k).transpose(1, 2)
SplitHeads(self, l, x, nbatches) ==
    Transpose(View(Linear(l, x), <<nbatches, -1, self.h, self.d_k>>), 1, 2)

\* A variant of MergeHeads without the transpose and the view that merge
\* the heads: the last linear applied to the (batch, head, length, d_k)
\* tensor as it is.
MergeHeads_unmerged(self, x, nbatches) == Linear(self.linears[4], x)

\* x.transpose(1, 2).contiguous().view(nbatches, -1, h * d_k), then the last
\* linear: lines 180-181 and 276-277.
MergeHeads(self, x, nbatches) ==
    Linear(self.linears[4],
           View(Contiguous(Transpose(x, 1, 2)), <<nbatches, -1, self.h * self.d_k>>))

\* Lines 166-168 and 255-257: the mask with a dimension for the heads.
UnsqueezeMask(mask) == IF mask # None THEN Unsqueeze(mask, 1) ELSE mask

\* Lines 176-181 of MultiHeadedAttention.forward, a being what attention
\* returned: the returned tensor `out`, and what the call stores in
\* self.attn (`stored` is whether line 176 completed).
MultiHeadedAttention_return(self, a, nbatches) ==
    [out    |-> MergeHeads(self, a.x, nbatches),
     stored |-> ~IsErr(a.x),
     attn   |-> a.p_attn,
     scores |-> a.scores]

\* MultiHeadedAttention.forward
MultiHeadedAttention_forward(self, query, key, value, mask, seed) ==
    MultiHeadedAttention_return(self,
        attention(SplitHeads(self, self.linears[1], query, Size(query, 0)),
                  SplitHeads(self, self.linears[2], key, Size(query, 0)),
                  SplitHeads(self, self.linears[3], value, Size(query, 0)),
                  UnsqueezeMask(mask), self.dropout, seed),
        Size(query, 0))

\* PositionwiseFeedForward.forward
PositionwiseFeedForward_forward(self, x, seed) ==
    Linear(self.w_2, Dropout(self.dropout, Relu(Linear(self.w_1, x)), seed))

\* A variant of _generate_relative_positions_matrix with the operands of
\* line 282's subtraction exchanged: the distance i - j instead of j - i.
_generate_relative_positions_matrix_swapped(d_q, d_k, max_relative_position) ==
    IF d_k # d_q THEN Raise("assert")
    ELSE TScalar("add",
             Clamp(TBinary("sub", Unsqueeze(Arange(d_q), -1), Unsqueeze(Arange(d_q), 0)),
                   -max_relative_position, max_relative_position),
             R(max_relative_position))

\* MultiHeadedAttention_RPR._generate_relative_positions_matrix
_generate_relative_positions_matrix(d_q, d_k, max_relative_position) ==
    IF d_k # d_q THEN Raise("assert")
    ELSE TScalar("add",
             Clamp(TBinary("sub", Unsqueeze(Arange(d_q), 0), Unsqueeze(Arange(d_q), -1)),
                   -max_relative_position, max_relative_position),
             R(max_relative_position))

\* MultiHeadedAttention_RPR.generate_relative_positions_embeddings.  The
\* table is the nn.Embedding(vocab_size, depth) that line 289 constructs:
\* its randomly initialised weight is the argument `weight`, a sequence of
\* vocab_size * depth elements drawn by the caller.
generate_relative_positions_embeddings(len_q, len_k, depth, max_relative_position, weight) ==
    Embedding(T(<<max_relative_position * 2 + 1, depth>>, weight),
              _generate_relative_positions_matrix(len_q, len_k, max_relative_position))

\* A variant of x_tz_matmul_v_t without the permute of line 301: the
\* (batch, head, length, d) tensor is viewed as (length, batch * head, d)
\* as it lies in memory.
x_tz_matmul_v_t_unpermuted(x, z, transpose) ==
    Permute(View(MatMul(View(x, <<Size(x, 2), Size(x, 0) * Size(x, 1), -1>>),
                        IF transpose THEN Transpose(z, -1, -2) ELSE z),
                 <<Size(x, 2), Size(x, 0), Size(x, 1), -1>>),
            <<1, 2, 0, 3>>)

\* Lines 301-306 of _relative_attn_inner: the term that contracts x with the
\* relation embeddings z, through permute / view / matmul / view / permute.
x_tz_matmul_v_t(x, z, transpose) ==
    Permute(View(MatMul(View(Contiguous(Permute(x, <<2, 0, 1, 3>>)),
                             <<Size(x, 2), Size(x, 0) * Size(x, 1), -1>>),
                        IF transpose THEN Transpose(z, -1, -2) ELSE z),
                 <<Size(x, 2), Size(x, 0), Size(x, 1), -1>>),
            <<1, 2, 0, 3>>)

\* Line 299 of _relative_attn_inner: the term of x and y alone.
xy_matmul(x, y, transpose) ==
    MatMul(x, IF transpose THEN Transpose(y, -1, -2) ELSE y)

\* MultiHeadedAttention_RPR._relative_attn_inner
_relative_attn_inner(x, y, z, transpose) ==
    TBinary("add", xy_matmul(x, y, transpose), x_tz_matmul_v_t(x, z, transpose))

\* What MultiHeadedAttention_RPR.forward returns (`out`, an error when the
\* call raised), with its locals logits and weights; `scored` is whether
\* line 299 of the first _relative_attn_inner call, the matmul of query and
\* key that yields the attention scores, ran to completion, and `tables`
\* counts the nn.Embedding tables the call constructed.
RPR_return(out, logits, weights, scored, tables) ==
    [out |-> out, logits |-> logits, weights |-> weights, scored |-> scored,
     tables |-> tables]

\* Lines 274-277 of MultiHeadedAttention_RPR.forward.
RPR_context(self, v, relation_values, logits, weights, scored, nbatches) ==
    RPR_return(MergeHeads(self, _relative_attn_inner(weights, v, relation_values, FALSE),
                          nbatches),
               logits, weights, scored, 2)

\* Lines 272-277.
RPR_weights(self, v, relation_values, logits, scored, seed, nbatches) ==
    RPR_context(self, v, relation_values, logits,
                Dropout(self.dropout, Softmax(logits), seed), scored, nbatches)

\* Lines 266-277, q, k and v being the projections of line 263 (when one of
\* them raised, the call ends there).  key_weight and value_weight are the
\* random initial weights of the two nn.Embedding tables that lines 267-270
\* construct; both are built for (seq_len, seq_len), the query's length.
RPR_attend(self, q, k, v, seq_len, seed, key_weight, value_weight, nbatches) ==
    IF IsErr(q) THEN RPR_return(q, q, q, FALSE, 0)
    ELSE IF IsErr(k) THEN RPR_return(k, k, k, FALSE, 0)
    ELSE IF IsErr(v) THEN RPR_return(v, v, v, FALSE, 0)
    ELSE RPR_weights(self, v,
             generate_relative_positions_embeddings(seq_len, seq_len, self.d_k,
                 self.max_relative_position, value_weight),
             _relative_attn_inner(q, k,
                 generate_relative_positions_embeddings(seq_len, seq_len, self.d_k,
                     self.max_relative_position, key_weight),
                 TRUE),
             ~IsErr(xy_matmul(q, k, TRUE)), seed, nbatches)

\* MultiHeadedAttention_RPR.forward.  The mask of lines 255-257 is read by
\* no later line.
MultiHeadedAttention_RPR_forward(self, query, key, value, mask, seed, key_weight, value_weight) ==
    RPR_attend(self,
               SplitHeads(self, self.linears[1], query, Size(query, 0)),
               SplitHeads(self, self.linears[2], key, Size(query, 0)),
               SplitHeads(self, self.linears[3], value, Size(query, 0)),
               Size(query, 1), seed, key_weight, value_weight, Size(query, 0))

\* What a callable passed as `sublayer` returns (`out`) and what it leaves
\* in the attn field of the attention module it calls (when `stored`).
Returned(out) == [out |-> out, stored |-> FALSE, attn |-> None]

ReturnedByAttention(r) == [out |-> r.out, stored |-> r.stored, attn |-> r.attn]

\* A call sublayer(x) of a callable: the lambda of line 81 around the
\* encoder's attention module, its feed_forward module, or (for a direct
\* call of SublayerConnection) a function that returns the tensor f.value
\* whatever its argument.  f.draw holds the random draws the callable
\* makes when called.
CallSublayer(f, x) ==
    CASE f.kind = "MultiHeadedAttention" ->
            ReturnedByAttention(
                MultiHeadedAttention_forward(f.module, x, x, x, f.mask, f.draw.seed))
      [] f.kind = "MultiHeadedAttention_RPR" ->
            Returned(MultiHeadedAttention_RPR_forward(f.module, x, x, x, f.mask,
                         f.draw.seed, f.draw.key_weight, f.draw.value_weight).out)
      [] f.kind = "PositionwiseFeedForward" ->
            Returned(PositionwiseFeedForward_forward(f.module, x, f.draw.seed))
      [] f.kind = "constant" -> Returned(f.value)

\* Line 67, s being what sublayer(self.norm(x)) returned: the sum `out`,
\* next to the callable's output `sub` and its effect on attn.
SublayerConnection_add(self, x, s, seed) ==
    [out    |-> TBinary("add", x, Dropout(self.dropout, s.out, seed)),
     sub    |-> s.out,
     stored |-> s.stored,
     attn   |-> s.attn]

\* SublayerConnection.forward
SublayerConnection_forward(self, x, sublayer, seed) ==
    SublayerConnection_add(self, x,
        CallSublayer(sublayer, LayerNorm_forward(self.norm, x)), seed)

\* Line 82 of EncoderLayer.forward, first being what line 81 returned.
EncoderLayer_return(self, first, draw) ==
    [out    |-> SublayerConnection_forward(self.sublayer[2], first.out,
                    [kind |-> "PositionwiseFeedForward", module |-> self.feed_forward,
                     mask |-> None, draw |-> draw, value |-> None], draw.seed).out,
     stored |-> first.stored,
     attn   |-> first.attn]

\* EncoderLayer.forward; attn_module is the module self.self_attn refers to.
EncoderLayer_forward(self, attn_module, x, mask, draw) ==
    EncoderLayer_return(self,
        SublayerConnection_forward(self.sublayer[1], x,
            [kind |-> self.self_attn, module |-> attn_module, mask |-> mask,
             draw |-> draw, value |-> None], draw.seed),
        draw)

(***************************************************************************)
(* Bounds of the model, and the inputs drawn within them.                  *)
(***************************************************************************)
\* Attention calls: batch size, sequence length, head count and
\* max_relative_position of the instances.
MaxBatch == 1
MaxLen == 2
MaxHeads == 2
MaxRel == 1
\* The pure functions of the relative variant: the largest extent of an
\* axis of a _relative_attn_inner argument, and the largest length and
\* max_relative_position of _generate_relative_positions_matrix.
MaxDim == 2
MaxSeq == 4
MaxClip == 3
\* Concurrent callers of one instance.
NumThreads == 2

\* A tensor of the given shape with elements in {-1, 0, 1}; s selects the
\* pattern.
Gen(shape, s) ==
    T(shape, [f \in 1..Numel(shape) |-> R((((f * f * f + (s + 1) * f + s) % 11) % 3) - 1)])

\* A mask of shape (batch, q_len, k_len) over {0, 1}: "causal" allows key
\* j for query i when j <= i, "alternate" allows it when b + i + j is odd
\* (so that some rows are forbidden entirely).
GenMask(kind, B, Lq, Lk) ==
    IF kind = "None" THEN None
    ELSE T(<<B, Lq, Lk>>, [f \in 1..(B * Lq * Lk) |->
             LET b == (f - 1) \div (Lq * Lk)
                 i == ((f - 1) \div Lk) % Lq
                 j == (f - 1) % Lk
             IN  IF kind = "causal" THEN (IF j <= i THEN R(1) ELSE R(0))
                 ELSE R((b + i + j) % 2)])

MaskKinds == {"None", "causal", "alternate"}

\* nn.Linear(in_features, out_features): its weight and bias are initialised
\* at random (and later trained); s selects the values.
Linear_init(in_features, out_features, s) ==
    [weight |-> T(<<out_features, in_features>>,
                  [f \in 1..(out_features * in_features) |->
                      LET o == (f - 1) \div in_features
                          i == (f - 1) % in_features
                      IN  IF o = i THEN R(1) ELSE R(((o + 2 * i + s) % 3) - 1)]),
     bias   |-> Gen(<<out_features>>, s)]

\* utils.clones(module, N): N independently parameterised copies.
clones(in_features, out_features, N) ==
    [j \in 1..N |-> Linear_init(in_features, out_features, j)]

\* nn.Dropout(p); `training` is the module's mode, set by train() / eval().
Dropout_init(p, training) == [p |-> p, training |-> training]

\* LayerNorm.__init__
LayerNorm_init(features) ==
    [weight |-> T(<<features>>, [f \in 1..features |-> R(1)]),
     bias   |-> T(<<features>>, [f \in 1..features |-> R(0)]),
     eps    |-> Q(1, 1000000)]

\* SublayerConnection.__init__
SublayerConnection_init(size, dropout, training) ==
    [norm    |-> LayerNorm_init(size),
     dropout |-> Dropout_init(dropout, training)]

\* PositionwiseFeedForward.__init__
PositionwiseFeedForward_init(d_model, d_ff, dropout, training) ==
    [w_1     |-> Linear_init(d_model, d_ff, 1),
     w_2     |-> Linear_init(d_ff, d_model, 2),
     dropout |-> Dropout_init(dropout, training)]

\* MultiHeadedAttention.__init__
MultiHeadedAttention_init(h, d_model, dropout, training) ==
    [d_k     |-> d_model \div h,
     h       |-> h,
     linears |-> clones(d_model, d_model, 4),
     attn    |-> None,
     dropout |-> Dropout_init(dropout, training)]

\* MultiHeadedAttention_RPR.__init__
MultiHeadedAttention_RPR_init(h, d_model, max_relative_position, dropout, training) ==
    [d_k     |-> d_model \div h,
     h       |-> h,
     linears |-> clones(d_model, d_model, 4),
     dropout |-> Dropout_init(dropout, training),
     max_relative_position |-> max_relative_position]

\* EncoderLayer.__init__; self_attn names the class of the attention module
\* the layer refers to (the module itself is the instance mha or rpr).
EncoderLayer_init(size, self_attn, feed_forward, dropout, training) ==
    [self_attn    |-> self_attn,
     feed_forward |-> feed_forward,
     sublayer     |-> [j \in 1..2 |-> SublayerConnection_init(size, dropout, training)],
     size         |-> size]

\* (h, d_model) of the instances, d_model % h = 0 as both constructors
\* assert: heads of width 1, and one head of width 4 (math.sqrt(d_k) is
\* rational for both).
HeadConfigs == {<<MaxHeads, MaxHeads>>, <<1, 4>>}

DropoutDisabled(self) == ~self.dropout.training \/ self.dropout.p = R(0)

\* The random draws of a dropout in one call: a single one when dropout is
\* disabled.
Draws(self) == IF DropoutDisabled(self) THEN {0} ELSE {0, 1}

\* The instances: the default dropout p = 0.1 of line 135 in training and
\* in evaluation mode.
MHAInstances ==
    {MultiHeadedAttention_init(c[1], c[2], Q(1, 10), t) : c \in HeadConfigs, t \in BOOLEAN}

\* The default dropout p = .0 of line 226.
RPRInstances ==
    {MultiHeadedAttention_RPR_init(c[1], c[2], m, R(0), TRUE) :
        c \in HeadConfigs, m \in {0, MaxRel}}

\* The shapes of a forward call: query (B, Lq, D), key (B, Lk, D), value
\* (B, Lv, D), each length 1 or the largest.  Key and value are the query
\* itself when "self" (the self-attention call forward(x, x, x)), other
\* tensors when "cross".
CallShapes ==
    {[B |-> MaxBatch, Lq |-> Lq, Lk |-> Lq, Lv |-> Lq, kv |-> "self"] :
        Lq \in {1, MaxLen}}
    \cup
    {[B |-> MaxBatch, Lq |-> Lq, Lk |-> Lk, Lv |-> Lv, kv |-> "cross"] :
        Lq \in {1, MaxLen}, Lk \in {1, MaxLen}, Lv \in {1, MaxLen}}

SelfShapes == {sh \in CallShapes : sh.kv = "self"}

\* The arguments of a forward call.
CallArgs == {[shape |-> sh, mask |-> m] : sh \in CallShapes, m \in MaskKinds}

Query(self, c) ==
    Gen(<<c.shape.B, c.shape.Lq, self.h * self.d_k>>, c.shape.Lq)
Key(self, c) ==
    IF c.shape.kv = "self" THEN Query(self, c)
    ELSE Gen(<<c.shape.B, c.shape.Lk, self.h * self.d_k>>, c.shape.Lk + 1)
Value(self, c) ==
    IF c.shape.kv = "self" THEN Query(self, c)
    ELSE Gen(<<c.shape.B, c.shape.Lv, self.h * self.d_k>>, c.shape.Lv + 2)
Mask(c) == GenMask(c.mask, c.shape.B, c.shape.Lq, c.shape.Lk)

\* The weight of an nn.Embedding(vocab_size, depth) as its constructor
\* initialises it: a random draw, s selects it (0 is the all-zero draw).
Embedding_init(vocab_size, depth, s) ==
    [f \in 1..(vocab_size * depth) |-> IF s = 0 THEN R(0) ELSE R(((f + s) % 3) - 1)]

\* The draws of the two tables of one MultiHeadedAttention_RPR.forward call.
TableDraws == {<<0, 0>>, <<1, 2>>, <<2, 1>>}

(***************************************************************************)
(* The state: the module instances (None where a scenario constructs       *)
(* none), the threads inside MultiHeadedAttention.forward, and the most    *)
(* recent call with its arguments and what it returned.                    *)
(***************************************************************************)
VARIABLES mha, rpr, encoder, threads, call

vars == <<mha, rpr, encoder, threads, call>>

NoCall == [op |-> "none", args |-> <<>>, result |-> <<>>]

\* The result of a call that has not run yet.
Pending == [error |-> "pending"]

(***************************************************************************)
(* Sequential calls of MultiHeadedAttention.forward.                       *)
(***************************************************************************)
\* forward is a function of the instance's parameters and of the call's
\* arguments and draws; its values on the inputs above are tabulated.
MHACalls(self) == {[args |-> a, draw |-> d] : a \in CallArgs, d \in Draws(self)}

MHA_results ==
    [self \in MHAInstances |-> [c \in MHACalls(self) |->
        MultiHeadedAttention_forward(self, Query(self, c.args), Key(self, c.args),
                                     Value(self, c.args), Mask(c.args), c.draw)]]

\* A variant of MHA_forward in which line 176 keeps attention's second
\* result in a local and assigns no field.
MHA_forward_unstored(c) ==
    \E r \in {MHA_results[[mha EXCEPT !.attn = None]][c]} :
        /\ call' = [op |-> "MultiHeadedAttention.forward", args |-> c, result |-> r]
        /\ UNCHANGED <<mha, rpr, encoder, threads>>

\* A call of MultiHeadedAttention.forward on the instance mha.  Line 176
\* assigns self.attn when attention() returns; a call that raises before
\* leaves it as it was.
MHA_forward(c) ==
    \E r \in {MHA_results[[mha EXCEPT !.attn = None]][c]} :
        /\ mha' = [mha EXCEPT !.attn = IF r.stored THEN r.attn ELSE @]
        /\ call' = [op |-> "MultiHeadedAttention.forward", args |-> c, result |-> r]
        /\ UNCHANGED <<rpr, encoder, threads>>

InitMHA ==
    /\ mha \in MHAInstances
    /\ rpr = None
    /\ encoder = None
    /\ threads = <<>>
    /\ call = NoCall

NextMHA == \E c \in MHACalls(mha) : MHA_forward(c)

SpecMHA == InitMHA /\ [][NextMHA]_vars

(***************************************************************************)
(* Sequential calls of MultiHeadedAttention_RPR.forward.                   *)
(***************************************************************************)
RPRArgs == {a \in CallArgs : a.mask \in {"None", "causal"}}

RPRCalls == {[args |-> a, draw |-> d] : a \in RPRArgs, d \in TableDraws}

\* The weight nn.Embedding draws for the table of line 289; which selects
\* the call's first (keys) or second (values) construction.
TableWeight(self, c, which) ==
    Embedding_init(self.max_relative_position * 2 + 1, self.d_k, c.draw[which])

RPR_results ==
    [self \in RPRInstances |-> [c \in RPRCalls |->
        MultiHeadedAttention_RPR_forward(self, Query(self, c.args), Key(self, c.args),
                                         Value(self, c.args), Mask(c.args), 0,
                                         TableWeight(self, c, 1), TableWeight(self, c, 2))]]

\* A call of MultiHeadedAttention_RPR.forward on the instance rpr: it
\* assigns no field of the instance.
RPR_forward(c) ==
    /\ call' = [op |-> "MultiHeadedAttention_RPR.forward", args |-> c,
                result |-> RPR_results[rpr][c]]
    /\ UNCHANGED <<mha, rpr, encoder, threads>>

InitRPR ==
    /\ mha = None
    /\ rpr \in RPRInstances
    /\ encoder = None
    /\ threads = <<>>
    /\ call = NoCall

NextRPR == \E c \in RPRCalls : RPR_forward(c)

SpecRPR == InitRPR /\ [][NextRPR]_vars

(***************************************************************************)
(* The layers built on the attention modules: EncoderLayer.forward and     *)
(* SublayerConnection.forward, next to the self-attention calls            *)
(* forward(x, x, x) of the two attention modules.  All modules are in      *)
(* evaluation mode.                                                        *)
(***************************************************************************)
AttnKinds == {"MultiHeadedAttention", "MultiHeadedAttention_RPR"}

\* The instances of one scenario: both attention modules of one (h,
\* d_model), the relative one with max_relative_position m, and an encoder
\* layer of that size around one of them.
LayerModules(c, kind, m) ==
    [mha     |-> MultiHeadedAttention_init(c[1], c[2], Q(1, 10), FALSE),
     rpr     |-> MultiHeadedAttention_RPR_init(c[1], c[2], m, R(0), TRUE),
     encoder |-> EncoderLayer_init(c[2], kind,
                    PositionwiseFeedForward_init(c[2], 2 * c[2], Q(1, 10), FALSE),
                    Q(1, 10), FALSE)]

LayerInstances ==
    {LayerModules(c, kind, m) : c \in HeadConfigs, kind \in AttnKinds, m \in {0, MaxRel}}

\* The self-attention calls: the input x of shape (B, L, D) and a mask.
SelfArgs == {a \in RPRArgs : a.shape.kv = "self"}

EncCalls(kind) ==
    {[args |-> a, draw |-> d] :
        a \in SelfArgs,
        d \in IF kind = "MultiHeadedAttention_RPR" THEN TableDraws ELSE {<<0, 0>>}}

\* The module self.self_attn refers to.
SelfAttn(m) == IF m.encoder.self_attn = "MultiHeadedAttention" THEN m.mha ELSE m.rpr

\* The draws of one EncoderLayer.forward call.
EncDraw(m, c) ==
    [seed         |-> 0,
     key_weight   |-> Embedding_init(m.rpr.max_relative_position * 2 + 1, m.rpr.d_k, c.draw[1]),
     value_weight |-> Embedding_init(m.rpr.max_relative_position * 2 + 1, m.rpr.d_k, c.draw[2])]

\* EncoderLayer.forward on the input x of the call c.
Enc_apply(m, c) ==
    EncoderLayer_forward(m.encoder, SelfAttn(m), Query(m.mha, c.args), Mask(c.args),
                         EncDraw(m, c))

Enc_results ==
    [m \in LayerInstances |-> [c \in EncCalls(m.encoder.self_attn) |-> Enc_apply(m, c)]]

\* The callables passed to SublayerConnection.forward directly: the
\* feed-forward module, and functions returning a tensor of x's shape
\* (B, L, D), of (B, 1, D), of (B, L, 1), of (D) or of (B, L + 1, D).
SublayerKinds ==
    {"feed_forward", "same", "one_position", "one_feature", "vector", "longer"}

SubCalls == {[shape |-> sh, sublayer |-> k] : sh \in SelfShapes, k \in SublayerKinds}

SubOutputShape(k, B, L, D) ==
    CASE k = "same"         -> <<B, L, D>>
      [] k = "one_position" -> <<B, 1, D>>
      [] k = "one_feature"  -> <<B, L, 1>>
      [] k = "vector"       -> <<D>>
      [] k = "longer"       -> <<B, L + 1, D>>

Callable(m, c) ==
    IF c.sublayer = "feed_forward"
    THEN [kind |-> "PositionwiseFeedForward", module |-> m.encoder.feed_forward,
          mask |-> None, draw |-> [seed |-> 0], value |-> None]
    ELSE [kind |-> "constant", module |-> None, mask |-> None, draw |-> [seed |-> 0],
          value |-> Gen(SubOutputShape(c.sublayer, c.shape.B, c.shape.Lq, m.encoder.size), 3)]

SubInput(m, c) == Gen(<<c.shape.B, c.shape.Lq, m.encoder.size>>, c.shape.Lq)

\* SublayerConnection.forward of the encoder's first sublayer connection.
Sub_apply(m, c) ==
    SublayerConnection_forward(m.encoder.sublayer[1], SubInput(m, c), Callable(m, c), 0)

Sub_results == [m \in LayerInstances |-> [c \in SubCalls |-> Sub_apply(m, c)]]

\* The instances as constructed: the state with every attn field None.
Modules == [mha |-> [mha EXCEPT !.attn = None], rpr |-> rpr, encoder |-> encoder]

\* A call of EncoderLayer.forward; self.self_attn is the instance mha or rpr.
Encoder_forward(c) ==
    \E r \in {Enc_results[Modules][c]} :
        /\ mha' = [mha EXCEPT !.attn = IF r.stored THEN r.attn ELSE @]
        /\ call' = [op |-> "EncoderLayer.forward", args |-> c, result |-> r]
        /\ UNCHANGED <<rpr, encoder, threads>>

\* A call of SublayerConnection.forward.
Sublayer_forward(c) ==
    /\ call' = [op |-> "SublayerConnection.forward", args |-> c,
                result |-> Sub_results[Modules][c]]
    /\ UNCHANGED <<mha, rpr, encoder, threads>>

InitLayer ==
    /\ \E m \in LayerInstances : mha = m.mha /\ rpr = m.rpr /\ encoder = m.encoder
    /\ threads = <<>>
    /\ call = NoCall

NextLayer ==
    \/ \E a \in SelfArgs : MHA_forward([args |-> a, draw |-> 0])
    \/ \E a \in SelfArgs, d \in TableDraws : RPR_forward([args |-> a, draw |-> d])
    \/ \E c \in EncCalls(encoder.self_attn) : Encoder_forward(c)
    \/ \E c \in SubCalls : Sublayer_forward(c)

SpecLayer == InitLayer /\ [][NextLayer]_vars

(***************************************************************************)
(* The pure functions of the relative variant, applied to inputs drawn     *)
(* by Init.                                                                *)
(***************************************************************************)
MatrixArgs ==
    {[d_q |-> n, d_k |-> k, max_relative_position |-> m] :
        n \in 1..MaxSeq, k \in 1..MaxSeq, m \in 0..MaxClip}

\* _relative_attn_inner(x, y, z, transpose) as forward calls it: for the
\* logits (transpose = True) x is the query (B, h, L, d), y the key and z
\* the key relations (L, L, d); for the context x is the weights
\* (B, h, L, L), y the value and z the value relations.
InnerArgs ==
    {[B |-> B, h |-> h, L |-> L, d |-> d, transpose |-> t, s |-> s] :
        B \in 1..MaxDim, h \in 1..MaxDim, L \in 1..MaxDim, d \in 1..MaxDim,
        t \in BOOLEAN, s \in {0, 1}}

InnerX(a) == Gen(<<a.B, a.h, a.L, IF a.transpose THEN a.d ELSE a.L>>, a.s)
InnerY(a) == Gen(<<a.B, a.h, a.L, a.d>>, a.s + 1)
InnerZ(a) == Gen(<<a.L, a.L, a.d>>, a.s + 3)

\* _generate_relative_positions_matrix applied to the drawn arguments.
Rel_matrix ==
    /\ call.op = "_generate_relative_positions_matrix"
    /\ call.result = Pending
    /\ call' = [call EXCEPT !.result =
                   _generate_relative_positions_matrix(call.args.d_q, call.args.d_k,
                                                       call.args.max_relative_position)]
    /\ UNCHANGED <<mha, rpr, encoder, threads>>

\* _relative_attn_inner applied to the drawn arguments: what it returns
\* (`out`) and its two terms.
Rel_inner ==
    /\ call.op = "_relative_attn_inner"
    /\ call.result = Pending
    /\ call' = [call EXCEPT !.result =
                   [out  |-> _relative_attn_inner(InnerX(call.args), InnerY(call.args),
                                                  InnerZ(call.args), call.args.transpose),
                    xy   |-> xy_matmul(InnerX(call.args), InnerY(call.args),
                                       call.args.transpose),
                    term |-> x_tz_matmul_v_t(InnerX(call.args), InnerZ(call.args),
                                             call.args.transpose)]]
    /\ UNCHANGED <<mha, rpr, encoder, threads>>

InitRel ==
    /\ mha = None
    /\ rpr = None
    /\ encoder = None
    /\ threads = <<>>
    /\ call \in {[op |-> "_generate_relative_positions_matrix", args |-> a,
                  result |-> Pending] : a \in MatrixArgs}
                \cup {[op |-> "_relative_attn_inner", args |-> a, result |-> Pending] :
                         a \in InnerArgs}

NextRel == Rel_matrix \/ Rel_inner

SpecRel == InitRel /\ [][NextRel]_vars

(***************************************************************************)
(* Concurrent calls of MultiHeadedAttention.forward on one instance in     *)
(* evaluation mode.  A thread's locals are its own; self.attn is the       *)
(* instance's.  pc is the line the thread executes next.                   *)
(***************************************************************************)
Threads == 1..NumThreads

Idle ==
    [pc |-> "idle", args |-> <<>>, query |-> None, key |-> None, value |-> None,
     x |-> None, out |-> None]

ConcArgs == SelfArgs

\* Line 164: a thread enters forward with its arguments.
Conc_call(t, a) ==
    /\ threads[t].pc \in {"idle", "done"}
    /\ threads' = [threads EXCEPT ![t] = [Idle EXCEPT !.pc = "171", !.args = a]]
    /\ UNCHANGED <<mha, rpr, encoder, call>>

\* Lines 166-173: the three projections into the locals query, key, value.
Conc_project(t) ==
    /\ threads[t].pc = "171"
    /\ threads' = [threads EXCEPT ![t] =
          [@ EXCEPT !.pc = "176",
              !.query = SplitHeads(mha, mha.linears[1], Query(mha, threads[t].args),
                                   threads[t].args.shape.B),
              !.key   = SplitHeads(mha, mha.linears[2], Key(mha, threads[t].args),
                                   threads[t].args.shape.B),
              !.value = SplitHeads(mha, mha.linears[3], Value(mha, threads[t].args),
                                   threads[t].args.shape.B)]]
    /\ UNCHANGED <<mha, rpr, encoder, call>>

\* Line 176: x, self.attn = attention(query, key, value, ...); when
\* attention raises, the call ends and self.attn is not assigned.
Conc_attend(t) ==
    /\ threads[t].pc = "176"
    /\ \E a \in {attention(threads[t].query, threads[t].key, threads[t].value,
                           UnsqueezeMask(Mask(threads[t].args)), mha.dropout, 0)} :
          /\ threads' = [threads EXCEPT ![t] =
                IF IsErr(a.x) THEN [@ EXCEPT !.pc = "done", !.out = a.x]
                ELSE [@ EXCEPT !.pc = "180", !.x = a.x]]
          /\ mha' = [mha EXCEPT !.attn = IF IsErr(a.x) THEN @ ELSE a.p_attn]
    /\ UNCHANGED <<rpr, encoder, call>>

\* A variant of Conc_x that reads the instance's field instead of the
\* local: the product of self.attn and the thread's value.
Conc_x_shared(t) == MatMul(mha.attn, threads[t].value)

\* The x that line 180 reads: the thread's local.
Conc_x(t) == threads[t].x

\* Lines 180-181: the thread returns.
Conc_return(t) ==
    /\ threads[t].pc = "180"
    /\ threads' = [threads EXCEPT ![t] =
          [@ EXCEPT !.pc = "done",
              !.out = MergeHeads(mha, Conc_x(t), threads[t].args.shape.B)]]
    /\ call' = [op |-> "MultiHeadedAttention.forward",
                args |-> [args |-> threads[t].args, draw |-> 0],
                result |-> threads'[t].out]
    /\ UNCHANGED <<mha, rpr, encoder>>

InitConc ==
    /\ mha \in {m \in MHAInstances : DropoutDisabled(m)}
    /\ rpr = None
    /\ encoder = None
    /\ threads = [t \in Threads |-> Idle]
    /\ call = NoCall

NextConc ==
    \E t \in Threads :
        \/ \E a \in ConcArgs : Conc_call(t, a)
        \/ Conc_project(t)
        \/ Conc_attend(t)
        \/ Conc_return(t)

SpecConc == InitConc /\ [][NextConc]_vars

(***************************************************************************)
(* The properties.                                                         *)
(***************************************************************************)
\* The shape of the arguments of the most recent forward call.
Shape == call.args.args.shape

\* Whether a mask is respected by the scores softmax read and the weights
\* it returned: at every position (b, i, j) whose mask entry is zero, in
\* every head h, the score is the fill constant, and the weight is at most
\* that of every allowed position of the same row.
MaskRespected(mask, scores, weights) ==
    \A b \in 0..(mask.shape[1] - 1), i \in 0..(mask.shape[2] - 1),
       j \in 0..(mask.shape[3] - 1), h \in 0..(scores.shape[2] - 1) :
        At(mask, <<b, i, j>>) = R(0) =>
            /\ At(scores, <<b, h, i, j>>) = R(-1000000000)
            /\ \A j2 \in 0..(mask.shape[3] - 1) :
                  At(mask, <<b, i, j2>>) # R(0) =>
                      ~RLess(At(weights, <<b, h, i, j2>>), At(weights, <<b, h, i, j>>))

\* C1: in both attention variants, when a mask of shape (batch, q_len,
\* k_len) is supplied, every position whose mask entry is zero has its score
\* replaced by the large negative constant before softmax, in every head,
\* and receives no more weight than an allowed position of the same row.
C1_MaskApplied ==
    /\ (/\ call.op = "MultiHeadedAttention.forward"
        /\ call.args.args.mask # "None"
        /\ ~IsErr(call.result.attn))
       => MaskRespected(Mask(call.args.args), call.result.scores, call.result.attn)
    /\ (/\ call.op = "MultiHeadedAttention_RPR.forward"
        /\ call.args.args.mask # "None"
        /\ Shape.Lk = Shape.Lq /\ Shape.Lv = Shape.Lq
        /\ ~IsErr(call.result.weights))
       => MaskRespected(Mask(call.args.args), call.result.logits, call.result.weights)

\* The MultiHeadedAttention instance with the projection weights of rpr,
\* in evaluation mode.
StandardOf(self) == MultiHeadedAttention_init(self.h, self.h * self.d_k, Q(1, 10), FALSE)

\* C2: for query, key and value of equal sequence length, no mask and
\* dropout disabled, MultiHeadedAttention_RPR.forward with all-zero key and
\* value relation tables returns what MultiHeadedAttention.forward returns
\* with the same four linear projections.
C2_ZeroTablesGiveStandardAttention ==
    (/\ call.op = "MultiHeadedAttention_RPR.forward"
     /\ call.args.args.mask = "None"
     /\ call.args.draw = <<0, 0>>
     /\ Shape.Lk = Shape.Lq /\ Shape.Lv = Shape.Lq)
    => call.result.out
         = MHA_results[StandardOf(rpr)][[args |-> call.args.args, draw |-> 0]].out

\* C3: a forward call of MultiHeadedAttention_RPR reads the relation tables
\* created at instantiation and creates none, so that with dropout disabled
\* a call returns what the previous call with equal inputs on the same
\* instance returned.
C3_EqualInputsEqualOutputs ==
    [][(/\ call.op = "MultiHeadedAttention_RPR.forward"
        /\ call'.op = "MultiHeadedAttention_RPR.forward"
        /\ call'.args.args = call.args.args
        /\ rpr' = rpr
        /\ DropoutDisabled(rpr))
       => (call'.result.tables = 0 /\ call'.result.out = call.result.out)]_vars

\* C4: for every input x of shape (B, L, D), the self-attention call
\* forward(x, x, x) of MultiHeadedAttention and of MultiHeadedAttention_RPR
\* and EncoderLayer.forward built on either return a tensor of shape
\* (B, L, D).
C4_ShapePreserved ==
    (/\ call.op \in {"MultiHeadedAttention.forward", "MultiHeadedAttention_RPR.forward",
                     "EncoderLayer.forward"}
     /\ Shape.kv = "self")
    => /\ ~IsErr(call.result.out)
       /\ call.result.out.shape = <<Shape.B, Shape.Lq, encoder.size>>

\* An EncoderLayer.forward call around the relative variant, on an input of
\* the largest length and with the largest head count, returned a tensor of
\* the input's shape.
C4_Witness ==
    /\ call.op = "EncoderLayer.forward"
    /\ encoder.self_attn = "MultiHeadedAttention_RPR"
    /\ rpr.h = MaxHeads
    /\ Shape.Lq = MaxLen
    /\ call.result.out.shape = <<MaxBatch, MaxLen, MaxHeads>>

\* C5: MultiHeadedAttention_RPR.forward called with a key or value whose
\* sequence length differs from the query's ends in an error, raised before
\* any attention score is computed; it never returns a result.
C5_LengthMismatchRaisesFirst ==
    (/\ call.op = "MultiHeadedAttention_RPR.forward"
     /\ (Shape.Lk # Shape.Lq \/ Shape.Lv # Shape.Lq))
    => (IsErr(call.result.out) /\ ~call.result.scored)

\* C6: SublayerConnection.forward(x, sublayer) ends in an error whenever the
\* shape of what sublayer returned differs from the shape of x; it never
\* returns a sum obtained by broadcasting.
C6_ShapeMismatchRaises ==
    (/\ call.op = "SublayerConnection.forward"
     /\ ~IsErr(call.result.sub)
     /\ call.result.sub.shape # <<call.args.shape.B, call.args.shape.Lq, encoder.size>>)
    => IsErr(call.result.out)

\* What the call of thread t returns when it runs alone.
Alone(t) == MHA_results[[mha EXCEPT !.attn = None]][[args |-> threads[t].args, draw |-> 0]]

\* C7: under every interleaving of concurrent forward calls on one
\* MultiHeadedAttention instance (dropout disabled), a call that has
\* returned has returned the output it returns when run alone on its
\* inputs.
C7_OutputAsIfAlone ==
    \A t \in DOMAIN threads :
        threads[t].pc = "done" => threads[t].out = Alone(t).out

\* Thread 1 has returned its own output while thread 2 is between lines 176
\* and 180 of a call with other arguments, and self.attn holds weights that
\* are not those of thread 1's call.
C7_Witness ==
    /\ threads[1].pc = "done"
    /\ threads[2].pc = "180"
    /\ threads[1].args # threads[2].args
    /\ ~IsErr(threads[1].out)
    /\ threads[1].out = Alone(1).out
    /\ mha.attn # Alone(1).attn
    /\ mha.attn = Alone(2).attn

\* C8: the attn field of a MultiHeadedAttention instance is None until the
\* first forward call; after a call that returned it holds the attention
\* weights (batch, head, q_len, k_len) that call computed; and no step
\* other than a call's line 176 changes it (a call that raises before
\* leaves the previous value).
C8_AttnHoldsLastWeights ==
    /\ [](/\ call = NoCall => mha.attn = None
          /\ (call # NoCall /\ call.result.stored) =>
                /\ mha.attn = call.result.attn
                /\ mha.attn.shape = <<Shape.B, mha.h, Shape.Lq, Shape.Lk>>)
    /\ [][~call'.result.stored => mha'.attn = mha.attn]_vars

\* A cross-attention call in training mode with a mask and the largest
\* head count has returned, and attn holds its weights.
C8_Witness ==
    /\ call.op = "MultiHeadedAttention.forward"
    /\ call.result.stored
    /\ mha.dropout.training
    /\ call.args.draw = 1
    /\ call.args.args.mask = "causal"
    /\ mha.h = MaxHeads
    /\ Shape.Lq = MaxLen /\ Shape.Lk = 1
    /\ mha.attn = call.result.attn
    /\ mha.attn.shape = <<MaxBatch, MaxHeads, MaxLen, 1>>

\* clip(v, lo, hi)
Clip(v, lo, hi) == IF v < lo THEN lo ELSE IF v > hi THEN hi ELSE v

\* C9: _generate_relative_positions_matrix(n, n, m) is the n x n matrix
\* whose entry (i, j) is clip(j - i, -m, m) + m; every entry lies in
\* [0, 2m], and when m >= n - 1 entry (i, j) is (j - i) + m.
C9_ClippedDistanceMatrix ==
    (/\ call.op = "_generate_relative_positions_matrix"
     /\ call.result # Pending
     /\ call.args.d_k = call.args.d_q)
    => LET n == call.args.d_q
           m == call.args.max_relative_position
       IN  /\ ~IsErr(call.result)
           /\ call.result.shape = <<n, n>>
           /\ \A i, j \in 0..(n - 1) :
                 /\ At(call.result, <<i, j>>) = R(Clip(j - i, -m, m) + m)
                 /\ At(call.result, <<i, j>>)[2] = 1
                 /\ At(call.result, <<i, j>>)[1] \in 0..(2 * m)
                 /\ m >= n - 1 => At(call.result, <<i, j>>) = R((j - i) + m)

\* The matrix of the largest length with max_relative_position 1 has been
\* computed: its corners are clipped to 2m and to 0.
C9_Witness ==
    /\ call.op = "_generate_relative_positions_matrix"
    /\ call.result # Pending
    /\ call.args.d_q = MaxSeq /\ call.args.d_k = MaxSeq
    /\ call.args.max_relative_position = 1
    /\ At(call.result, <<0, MaxSeq - 1>>) = R(2)
    /\ At(call.result, <<MaxSeq - 1, 0>>) = R(0)

\* The relative term at (n, h, i, j) as the sum it stands for: for the
\* logits the sum over d of x[n,h,i,d] * z[i,j,d], for the context (where j
\* is the feature) the sum over k of x[n,h,i,k] * z[i,k,j].
EinsumTerm(x, z, transpose, n, h, i, j) ==
    IF transpose
    THEN RSumSeq([d \in 1..z.shape[3] |->
                     RMul(At(x, <<n, h, i, d - 1>>), At(z, <<i, j, d - 1>>))])
    ELSE RSumSeq([k \in 1..z.shape[2] |->
                     RMul(At(x, <<n, h, i, k - 1>>), At(z, <<i, k - 1, j>>))])

\* C10: the relative term _relative_attn_inner computes is, at every batch
\* n, head h, query position i and key position j, the sum over d of
\* query[n,h,i,d] * relation_key[i,j,d], and for the context at (n,h,i,d)
\* the sum over j of weights[n,h,i,j] * relation_value[i,j,d]; the result is
\* that term added to the product of x and y.
C10_RelativeTermPlacement ==
    (call.op = "_relative_attn_inner" /\ call.result # Pending)
    => LET a    == call.args
           last == IF call.args.transpose THEN call.args.L ELSE call.args.d
       IN  /\ ~IsErr(call.result.out)
           /\ call.result.term.shape = <<a.B, a.h, a.L, last>>
           /\ call.result.out.shape = <<a.B, a.h, a.L, last>>
           /\ \A n \in 0..(a.B - 1), h \in 0..(a.h - 1), i \in 0..(a.L - 1),
                 j \in 0..(last - 1) :
                 /\ At(call.result.term, <<n, h, i, j>>)
                      = EinsumTerm(InnerX(a), InnerZ(a), a.transpose, n, h, i, j)
                 /\ At(call.result.out, <<n, h, i, j>>)
                      = RAdd(At(call.result.xy, <<n, h, i, j>>),
                             At(call.result.term, <<n, h, i, j>>))

\* The logits term of the largest query has been computed, and it differs
\* between two batch elements, two heads and two query positions.
C10_Witness ==
    /\ call.op = "_relative_attn_inner"
    /\ call.result # Pending
    /\ call.args.transpose
    /\ call.args.B = MaxDim /\ call.args.h = MaxDim
    /\ call.args.L = MaxDim /\ call.args.d = MaxDim
    /\ \E j \in 0..(MaxDim - 1) :
          At(call.result.term, <<0, 0, 0, j>>) # At(call.result.term, <<1, 0, 0, j>>)
    /\ \E j \in 0..(MaxDim - 1) :
          At(call.result.term, <<0, 0, 0, j>>) # At(call.result.term, <<0, 1, 0, j>>)
    /\ \E j \in 0..(MaxDim - 1) :
          At(call.result.term, <<0, 0, 0, j>>) # At(call.result.term, <<0, 0, 1, j>>)
=============================================================================
